---------------------------- MODULE Spec2Model ----------------------------
(***************************************************************************)
(* A model of telescope.py, the Sublime Text "telescope" live search.     *)
(*                                                                         *)
(* Text is modelled as a sequence of one-character strings, so that        *)
(* len(), slicing, str.strip() and str.replace() are computed as Python    *)
(* computes them.  A Python `None`, a missing dictionary key and a value   *)
(* are told apart by a `kind` field of a record with a fixed set of        *)
(* fields.                                                                 *)
(***************************************************************************)
EXTENDS Integers, Sequences, FiniteSets, TLC

(***************************************************************************)
(* Part 1.  Text helpers (Python built-ins used by the plugin).            *)
(***************************************************************************)

\* str.strip() removes these characters; `c.strip()` is falsy for them.
IsSpace(c) == c \in {" ", "\n", "\t"}

\* `not line.strip()`: the text holds nothing but white space.
IsBlank(s) == \A k \in 1..Len(s) : IsSpace(s[k])

\* content.replace("\n", " ")
ReplaceNewline(s) == [k \in 1..Len(s) |-> IF s[k] = "\n" THEN " " ELSE s[k]]

\* s[:-1]: everything but the last character (the empty text stays empty).
DropLast(s) == IF Len(s) = 0 THEN s ELSE SubSeq(s, 1, Len(s) - 1)

\* s[a:][:n], with a 0-based start as in Python.
SliceFrom(s, a, n) ==
    LET rest == IF a >= Len(s) THEN << >> ELSE SubSeq(s, a + 1, Len(s))
    IN IF Len(rest) <= n THEN rest ELSE SubSeq(rest, 1, n)

\* next((i for i, s in enumerate(content) if s.strip()), 0)
ToTrim(content) ==
    LET idx == {k \in 1..Len(content) : ~IsSpace(content[k])}
    IN IF idx = {} THEN 0
       ELSE (CHOOSE k \in idx : \A j \in idx : k <= j) - 1

Digit(d) == <<"0", "1", "2", "3", "4", "5", "6", "7", "8", "9">>[d + 1]

RECURSIVE StrOfInt(_)
\* str(line_number) for a non-negative integer.
StrOfInt(n) == IF n < 10 THEN <<Digit(n)>>
               ELSE StrOfInt(n \div 10) \o <<Digit(n % 10)>>

(***************************************************************************)
(* Part 2.  TelescopeSetResultCommand.run: the parse of the tool output.   *)
(*                                                                         *)
(* A line of the tool output is modelled by what `line.strip()` and        *)
(* `json.loads(line)` make of it:                                          *)
(*   kind "blank"  white space only                                        *)
(*   kind "text"   not blank and not JSON (a path of the files-only mode,  *)
(*                 or a record cut short); `text` is the raw line          *)
(*   kind "begin"  {"type": "begin", "data": {"path": {"text": path}}}     *)
(*   kind "match"  {"type": "match", "data": {path, line_number, lines,    *)
(*                 submatches}}; has_text is FALSE when `lines` carries    *)
(*                 no "text" (rg sends "bytes" for a non-UTF-8 line)       *)
(*   kind "other"  any other JSON object ("end", "summary", "context")     *)
(***************************************************************************)

\* telescope.py:222, `if i % 100 == 0`
FLUSH_PERIOD == 100

\* telescope.py:220, `content[to_trim:][:500]`
CONTENT_LIMIT == 500

NoText == << >>

BlankLine == [kind |-> "blank", text |-> <<"\n">>, path |-> NoText,
              line_number |-> 0, has_text |-> FALSE, submatches |-> << >>]

TextLine(t) == [kind |-> "text", text |-> t, path |-> NoText,
                line_number |-> 0, has_text |-> FALSE, submatches |-> << >>]

BeginLine(p) == [kind |-> "begin", text |-> NoText, path |-> p,
                 line_number |-> 0, has_text |-> FALSE, submatches |-> << >>]

MatchLine(p, n, t, subs) ==
    [kind |-> "match", text |-> t, path |-> p, line_number |-> n,
     has_text |-> TRUE, submatches |-> subs]

\* A match record whose `lines` object has no "text" key.
BytesLine(p, n, subs) ==
    [kind |-> "match", text |-> NoText, path |-> p, line_number |-> n,
     has_text |-> FALSE, submatches |-> subs]

OtherLine == [kind |-> "other", text |-> NoText, path |-> NoText,
              line_number |-> 0, has_text |-> FALSE, submatches |-> << >>]

\* The raw characters of a line.  The raw text of a JSON record is only
\* read in the files-only mode, where it is taken for a path; it is
\* abstracted to a two-character object and its line break.
RawText(line) == IF line.kind \in {"blank", "text"} THEN line.text
                 ELSE <<"{", "}", "\n">>

\* json.loads(line) succeeds, and the accesses of the loop body do.
WellFormed(line) ==
    \/ line.kind \in {"begin", "other"}
    \/ line.kind = "match" /\ line.has_text

\* dataclass SearchResult
SearchResult(path, line_number, line_position, region_io) ==
    [path |-> path, line_number |-> line_number,
     line_position |-> line_position, region_io |-> region_io]

\* The locals of run() before the loop, after view.erase().
ParseStart == [search_results |-> << >>, to_show |-> << >>, ii_view |-> 0,
               buffer |-> << >>, raised |-> FALSE]

\* The `only_files` branch of the loop body.
ParseFileLine(st, line) ==
    LET path == DropLast(RawText(line))
        to_show == st.to_show \o path \o <<"\n">>
        offset == st.ii_view + Len(to_show) - 1
    IN [st EXCEPT !.to_show = to_show,
                  !.search_results =
                      Append(@, SearchResult(path, 0, <<0, 0>>, <<offset, offset>>))]

\* The `type == "begin"` branch.
ParseBegin(st, line) ==
    LET sep == IF st.to_show # << >> THEN <<"\n", "\n">> ELSE << >>
    IN [st EXCEPT !.to_show = st.to_show \o sep \o line.path \o <<":">>]

\* The `type == "match"` branch.
ParseMatch(st, line) ==
    LET content == ReplaceNewline(line.text)
        shown == st.to_show \o <<"\n", " ">> \o StrOfInt(line.line_number) \o <<":", " ">>
        to_trim == ToTrim(content)
        offset == st.ii_view + Len(shown) - to_trim
        found == [k \in 1..Len(line.submatches) |->
                    SearchResult(line.path, line.line_number,
                                 <<line.submatches[k].start, line.submatches[k].end>>,
                                 <<line.submatches[k].start + offset,
                                   line.submatches[k].end + offset>>)]
    IN [st EXCEPT !.search_results = @ \o found,
                  !.to_show = shown \o SliceFrom(content, to_trim, CONTENT_LIMIT)]

\* A variant that does not count the text it inserts.
ParseFlushNoCount(st, i) ==
    IF i % FLUSH_PERIOD = 0
    THEN [st EXCEPT !.buffer = @ \o st.to_show,
                    !.to_show = << >>]
    ELSE st

\* `if i % 100 == 0`: the pending text goes to the panel.
ParseFlush(st, i) ==
    IF i % FLUSH_PERIOD = 0
    THEN [st EXCEPT !.buffer = @ \o st.to_show,
                    !.ii_view = @ + Len(st.to_show),
                    !.to_show = << >>]
    ELSE st

\* One iteration of `for i, line in enumerate(result)`.  An exception
\* (json.loads on a line that is not JSON, `.replace` on a missing text)
\* leaves the loop and the command: st.raised.
ParseLine(st, i, line, only_files) ==
    IF st.raised \/ IsBlank(RawText(line)) THEN st
    ELSE IF only_files THEN ParseFlush(ParseFileLine(st, line), i)
    ELSE IF ~WellFormed(line) THEN [st EXCEPT !.raised = TRUE]
    ELSE IF line.kind = "begin" THEN ParseFlush(ParseBegin(st, line), i)
    ELSE IF line.kind = "match" THEN ParseFlush(ParseMatch(st, line), i)
    ELSE ParseFlush(st, i)

\* `if to_show: self.view.insert(...)` after the loop.
ParseEnd(st) ==
    IF st.raised \/ st.to_show = << >> THEN st
    ELSE [st EXCEPT !.buffer = @ \o st.to_show]

RECURSIVE ParseFrom(_, _, _, _)
ParseFrom(st, i, result, only_files) ==
    IF i >= Len(result) THEN ParseEnd(st)
    ELSE ParseFrom(ParseLine(st, i, result[i + 1], only_files), i + 1, result, only_files)

\* TelescopeSetResultCommand.run(edit, result, only_files) up to the
\* set_timeout_async: the final locals.
ParseResult(result, only_files) == ParseFrom(ParseStart, 0, result, only_files)

(***************************************************************************)
(* Part 3.  The plugin's state: its module globals, the window with its    *)
(* views and its io panel, and Sublime's async thread.                     *)
(*                                                                         *)
(* One window.  A view is identified by the path of its file.  UI-thread   *)
(* handlers and async callbacks each run as one step, except               *)
(* TelescopeQueryCommand._run, which blocks the async thread in            *)
(* os.popen(cmd).readlines() while UI events go on.                        *)
(***************************************************************************)

\* telescope.py:13
MIN_UPDATE_PERIOD == 200

\* The number of calls of TelescopeQueryCommand.run in a behaviour.
MaxEdits == 2

\* The clock advances in steps of TickStep ms and stops at MaxTime.
TickStep == 100

MaxTime == 300

PathA == <<"a">>

PathB == <<"b">>

Files == {PathA, PathB}

NoView == << >>

\* A query is the list of its terms, search_query.split(" "); the empty
\* query splits into one empty term.
EmptyQuery == << << >> >>

QueryAb == << <<"a", "b">> >>

QueryGlob == << <<"*", ".", "p">> >>

Queries == {EmptyQuery, QueryAb, QueryGlob}

\* `None`, also the value of search_queries.pop(view, None) on no entry.
NoQuery == << >>

RECURSIVE QueryLen(_)
\* len(search_query)
QueryLen(q) == IF q = << >> THEN 0
               ELSE IF Len(q) = 1 THEN Len(q[1])
               ELSE Len(q[1]) + 1 + QueryLen(Tail(q))

\* s.startswith(("*", "-*"))
IsGlobTerm(s) ==
    \/ Len(s) >= 1 /\ s[1] = "*"
    \/ Len(s) >= 2 /\ s[1] = "-" /\ s[2] = "*"

\* The terms the loop over search_terms appends to `search`.
SearchTerms(q) ==
    SelectSeq(q, LAMBDA s : ~IsGlobTerm(s) /\ s # <<"~">> /\ ~IsBlank(s))

\* `if not search: only_files = True`
OnlyFiles(q) == SearchTerms(q) = << >>

\* A window region of a file view: text_point(line_number - 1, start) and
\* the end derived from the match span.
Region(line, a, b) == [line |-> line, a |-> a, b |-> b]

NoRegion == Region(-1, 0, 0)

\* A list of SearchResult with the number of the search that built it.
Results(ticket, items) == [ticket |-> ticket, items |-> items]

NoResults == Results(0, << >>)

\* The keys search_queries is read and written with.
ViewKey == "view"

WindowKey == "window"

\* ------------------------------------------------------------------------
\* What the external tool may print (after `| head -n200`), per mode.
\* ------------------------------------------------------------------------
Sub(a, b) == [start |-> a, end |-> b]

OutOne == <<BeginLine(PathB), MatchLine(PathB, 3, <<" ", "x", "y", "\n">>, <<Sub(1, 2)>>)>>

OutThree ==
    <<BeginLine(PathA), MatchLine(PathA, 1, <<"x", "\n">>, <<Sub(0, 1)>>), OtherLine,
      BeginLine(PathB), MatchLine(PathB, 2, <<"x", "x", "\n">>, <<Sub(0, 1), Sub(1, 2)>>)>>

\* The last record is cut short (the time limit, the line cap).
OutCut == <<BeginLine(PathA), MatchLine(PathA, 1, <<"x", "\n">>, <<Sub(0, 1)>>),
            TextLine(<<"{">>)>>

OutFiles == <<TextLine(<<"a", "\n">>), TextLine(<<"b", "\n">>)>>

ToolOutputs(only_files) ==
    IF only_files THEN {<< >>, OutFiles}
    ELSE {<< >>, OutOne, OutThree, OutCut}

VARIABLES
    panel,                 \* the io panel: "none", "shown" or "hidden"
    in_text,               \* the text of the input view
    out_buffer,            \* the text of the output view
    out_regions,           \* its "telescope-result-output" regions
    out_current,           \* index marked "telescope-result-output-current", -1: none
    search_queries,        \* global search_queries
    asyncq,                \* callbacks given to set_timeout_async, not yet run
    inflight,              \* the external process the async thread waits for
    now,                   \* the clock, ms
    views,                 \* the window's file views
    active_view,           \* window.active_view()
    input_focused,         \* the input view has the focus
    current_selection,     \* global current_selection[window]
    regions_to_add,        \* global regions_to_add[window]
    init_views_scroll,     \* global init_views_scroll[window]
    init_active_view,      \* global init_active_view[window]
    skip_telescope_reset,  \* global skip_telescope_reset
    hist,                  \* history: what happened, for the properties
    parse,                 \* one run of TelescopeSetResultCommand.run, line by line
    count                  \* the lines read from the tool and the results built

\* A file view that is not open.
ClosedView == [state |-> "closed", semi |-> FALSE, deco |-> NoRegion,
               viewport |-> 0, sel |-> NoRegion]

\* A view open before the search UI: loaded, a regular sheet.
LoadedView == [ClosedView EXCEPT !.state = "loaded"]

NoSelection == [kind |-> "absent", index |-> 0, region |-> NoRegion,
                view |-> NoView, results |-> NoResults]

\* current_selection[window] = None
NoneSelection == [NoSelection EXCEPT !.kind = "none"]

Selection(index, region, view, results) ==
    [kind |-> "sel", index |-> index, region |-> region, view |-> view,
     results |-> results]

NoDeferral == [kind |-> "absent", view |-> NoView, results |-> NoResults, index |-> 0]

Deferral(view, results, index) ==
    [kind |-> "set", view |-> view, results |-> results, index |-> index]

NoProcess == [active |-> FALSE, query |-> NoQuery, only_files |-> FALSE, ticket |-> 0]

Callback(fn, due, results) == [fn |-> fn, due |-> due, results |-> results]

\* init_views_scroll[window]: present is FALSE before the first run; pos[f]
\* is -1 for a view that is not a key.
NoScroll == [present |-> FALSE, pos |-> [f \in Files |-> -1]]

EmptyScroll == [present |-> TRUE, pos |-> [f \in Files |-> -1]]

\* init_active_view[window]
NoActive == [present |-> FALSE, view |-> NoView]

vars == <<panel, in_text, out_buffer, out_regions, out_current, search_queries,
          asyncq, inflight, now, views, active_view, input_focused,
          current_selection, regions_to_add, init_views_scroll,
          init_active_view, skip_telescope_reset, hist, parse, count>>

\* The variables of the plugin and its window.
evars == <<panel, in_text, out_buffer, out_regions, out_current, search_queries,
           asyncq, inflight, now, views, active_view, input_focused,
           current_selection, regions_to_add, init_views_scroll,
           init_active_view, skip_telescope_reset, hist>>

\* No run of the parser is being followed.
ParseIdle == [result |-> << >>, only_files |-> FALSE, first |-> 0, i |-> 0,
              st |-> ParseStart,
              status |-> "idle", scheduled |-> << >>]

CountIdle == [platform |-> "none", lines |-> 0, results |-> 0]

\* The history starts empty.  ticket numbers the queries _run has popped;
\* applied is the last list TelescopeSetResultCommand._run was called with;
\* since then, fresh: no user command has run, nav_only: none but
\* TelescopeFindNext and TelescopeFindPrev, which moved nav_expected.  shown
\* is the result the last call of _next_result marked current in the output
\* panel; live counts the external processes that have not ended.
NoShown == [kind |-> "none", results |-> NoResults, index |-> 0]

Shown(results, index) == [kind |-> "set", results |-> results, index |-> index]

NoHistory ==
    [n_edits |-> 0, ticket |-> 0, last_requested |-> NoQuery,
     last_processed |-> NoQuery, last_search |-> NoQuery, last_start |-> -1,
     applied |-> NoResults, nav_expected |-> 0, fresh |-> FALSE,
     nav_only |-> FALSE, nav_error |-> "none", shown |-> NoShown, live |-> 0]

\* The state after the plugin is loaded: no panel, empty globals.  The
\* window shows file b, in a regular or in a semi-transient sheet, or no
\* file; file a is not open.
InitEvents ==
    /\ panel = "none"
    /\ in_text = EmptyQuery
    /\ out_buffer = << >>
    /\ out_regions = << >>
    /\ out_current = << >>
    /\ search_queries = [k \in {ViewKey, WindowKey} |-> NoQuery]
    /\ asyncq = << >>
    /\ inflight = NoProcess
    /\ now = 0
    /\ \E opened \in {{}, {PathB}}, semi \in BOOLEAN :
          /\ opened = {} => ~semi
          /\ views = [f \in Files |-> IF f \in opened
                                      THEN [LoadedView EXCEPT !.semi = semi]
                                      ELSE ClosedView]
          /\ active_view = IF PathB \in opened THEN PathB ELSE NoView
    /\ input_focused = FALSE
    /\ current_selection = NoSelection
    /\ regions_to_add = NoDeferral
    /\ init_views_scroll = NoScroll
    /\ init_active_view = NoActive
    /\ skip_telescope_reset = FALSE
    /\ hist = NoHistory

Init == InitEvents /\ parse = ParseIdle /\ count = CountIdle

\* ------------------------------------------------------------------------
\* The window-side state the helper functions of the plugin transform.
\* ------------------------------------------------------------------------
Window ==
    [views |-> views, active_view |-> active_view, input_focused |-> input_focused,
     current_selection |-> current_selection, regions_to_add |-> regions_to_add,
     out_regions |-> out_regions, out_current |-> out_current]

SetWindow(w) ==
    /\ views' = w.views
    /\ active_view' = w.active_view
    /\ input_focused' = w.input_focused
    /\ current_selection' = w.current_selection
    /\ regions_to_add' = w.regions_to_add
    /\ out_regions' = w.out_regions
    /\ out_current' = w.out_current

\* _reset_initial_views_scroll(window)
ResetInitialViewsScroll(w, scroll) ==
    [w EXCEPT !.views =
        [f \in Files |->
            IF w.views[f].state = "closed" THEN w.views[f]
            ELSE [w.views[f] EXCEPT
                    !.deco = NoRegion,
                    !.viewport = IF scroll.pos[f] # -1 THEN scroll.pos[f] ELSE @]]]

\* window.open_file(path, SEMI_TRANSIENT | REPLACE_MRU): the view of an
\* open file is activated; a file that is not open gets a new view, still
\* loading, in the window's semi-transient sheet, whose former view closes.
OpenFile(w, path) ==
    IF w.views[path].state # "closed"
    THEN [w EXCEPT !.active_view = path, !.input_focused = FALSE]
    ELSE [w EXCEPT
            !.views = [f \in Files |->
                          IF f = path
                          THEN [ClosedView EXCEPT !.state = "loading", !.semi = TRUE]
                          ELSE IF w.views[f].semi THEN ClosedView
                          ELSE w.views[f]],
            !.active_view = path,
            !.input_focused = FALSE]

\* The region _set_file_view_regions computes for a result.
ResultRegion(r) == Region(r.line_number, r.line_position[1], r.line_position[2])

\* A variant that drops the highlight of a view that is loading.
SetFileViewRegionsNoWait(w, view, search_results, result_index, io_panel) ==
    IF w.views[view].state = "loading" \/ io_panel = "none" THEN w
    ELSE LET r_view == ResultRegion(search_results.items[result_index + 1])
         IN [w EXCEPT !.views[view].viewport = r_view.line,
                      !.views[view].deco = r_view,
                      !.input_focused = TRUE,
                      !.current_selection =
                          Selection(result_index, r_view, view, search_results)]

\* _set_file_view_regions(view, search_results, result_index)
SetFileViewRegions(w, view, search_results, result_index, io_panel) ==
    IF w.views[view].state = "loading"
    THEN [w EXCEPT !.regions_to_add = Deferral(view, search_results, result_index)]
    ELSE IF io_panel = "none" THEN w
    ELSE LET r_view == ResultRegion(search_results.items[result_index + 1])
         IN [w EXCEPT !.views[view].viewport = r_view.line,
                      !.views[view].deco = r_view,
                      !.input_focused = TRUE,
                      !.current_selection =
                          Selection(result_index, r_view, view, search_results)]

\* A variant that records a tuple for an empty result list too.
NextResultKeepTuple(w, scroll, io_panel, direction, search_results, result_index) ==
    LET n == Len(search_results.items)
        index == (result_index + direction) % (IF n = 0 THEN 1 ELSE n)
        regions == [k \in 1..n |-> search_results.items[k].region_io]
        w1 == ResetInitialViewsScroll(w, scroll)
        w2 == IF n > 0
              THEN LET path == search_results.items[index + 1].path
                   IN SetFileViewRegions(OpenFile(w1, path), path, search_results,
                                         index, io_panel)
              ELSE [w1 EXCEPT !.current_selection =
                                  Selection(index, NoRegion, NoView, search_results)]
    IN [w2 EXCEPT !.out_regions = regions,
                  !.out_current = IF n > 0 THEN <<regions[index + 1]>> ELSE @]

\* _next_result(window, output_panel, direction, search_results, result_index)
NextResult(w, scroll, io_panel, direction, search_results, result_index) ==
    LET n == Len(search_results.items)
        index == (result_index + direction) % (IF n = 0 THEN 1 ELSE n)
        regions == [k \in 1..n |-> search_results.items[k].region_io]
        w1 == ResetInitialViewsScroll(w, scroll)
        w2 == IF n > 0
              THEN LET path == search_results.items[index + 1].path
                   IN SetFileViewRegions(OpenFile(w1, path), path, search_results,
                                         index, io_panel)
              ELSE [w1 EXCEPT !.current_selection = NoneSelection]
    IN [w2 EXCEPT !.out_regions = regions,
                  !.out_current = IF n > 0 THEN <<regions[index + 1]>> ELSE @]

\* The result _next_result marks "telescope-result-output-current".
ShownBy(direction, search_results, result_index) ==
    LET n == Len(search_results.items)
    IN IF n = 0 THEN NoShown
       ELSE Shown(search_results, (result_index + direction) % n)

\* window.active_view() once views have closed: the active view if it is
\* still open, else another open view, else none.
ActiveAfterClose(vs, active) ==
    IF active # NoView /\ vs[active].state # "closed" THEN active
    ELSE IF \E f \in Files : vs[f].state # "closed"
    THEN CHOOSE f \in Files : vs[f].state # "closed"
    ELSE NoView

\* _reset_initial_state(window, close); focus_view has no effect on a view
\* that is closed.
ResetInitialState(w, scroll, active, close) ==
    LET w1 == IF active.present /\ active.view # NoView
                 /\ w.views[active.view].state # "closed"
              THEN [w EXCEPT !.active_view = active.view, !.input_focused = FALSE]
              ELSE w
        w2 == ResetInitialViewsScroll(w1, scroll)
        kept == [f \in Files |->
                    IF scroll.pos[f] = -1 /\ w2.views[f].state # "closed"
                       /\ w2.views[f].semi
                    THEN ClosedView ELSE w2.views[f]]
    IN IF ~close THEN w2
       ELSE [w2 EXCEPT !.views = kept,
                       !.active_view = ActiveAfterClose(kept, w2.active_view)]

\* ------------------------------------------------------------------------
\* TelescopeQueryCommand
\* ------------------------------------------------------------------------

\* `was_none = self.view.window() not in search_queries`: the dictionary is
\* written with the view as key and read here with the window.
WasNone(queries) == queries[WindowKey] = NoQuery

Min(a, b) == IF a <= b THEN a ELSE b

\* set_timeout_async(callback, delay); the clock stops at MaxTime.
SetTimeoutAsync(queue, fn, delay, results) ==
    Append(queue, Callback(fn, Min(now + delay, MaxTime), results))

\* A variant that keeps the query already stored.
TelescopeQueryKeepFirst(queries, queue, search_query) ==
    [queries |-> [queries EXCEPT ![ViewKey] = IF @ = NoQuery THEN search_query ELSE @],
     queue |-> SetTimeoutAsync(queue, "query_run",
                               IF WasNone(queries) THEN 0 ELSE MIN_UPDATE_PERIOD,
                               NoResults)]

\* TelescopeQueryCommand.run(edit, search_query): the new search_queries
\* and async queue.
TelescopeQuery(queries, queue, search_query) ==
    [queries |-> [queries EXCEPT ![ViewKey] = search_query],
     queue |-> SetTimeoutAsync(queue, "query_run",
                               IF WasNone(queries) THEN 0 ELSE MIN_UPDATE_PERIOD,
                               NoResults)]

\* A variant in which a callback does not wait for the end of the process.
RunnableNoWait(k) ==
    /\ k \in 1..Len(asyncq)
    /\ asyncq[k].due <= now
    /\ \A j \in 1..Len(asyncq) :
          j = k \/ asyncq[j].due > asyncq[k].due
                \/ (asyncq[j].due = asyncq[k].due /\ j > k)

\* The async thread is idle and callback k is the next one due.
Runnable(k) ==
    /\ ~inflight.active
    /\ k \in 1..Len(asyncq)
    /\ asyncq[k].due <= now
    /\ \A j \in 1..Len(asyncq) :
          j = k \/ asyncq[j].due > asyncq[k].due
                \/ (asyncq[j].due = asyncq[k].due /\ j > k)

Remove(queue, k) == SubSeq(queue, 1, k - 1) \o SubSeq(queue, k + 1, Len(queue))

\* Every step but a navigation command clears the record of its error.
Quiet(h) == [h EXCEPT !.nav_error = "none"]

\* A variant with a floor of 3 characters.
NoSearchForShort(search_query) == QueryLen(search_query) < 3

\* `if not search_query`: the query for which _run starts no process.
NoSearchFor(search_query) == search_query = EmptyQuery

\* IoPanelEventListener.on_modified -> TelescopeQueryCommand.run: the user
\* changes the text of the input view.
Edit(q) ==
    /\ panel = "shown"
    /\ q # in_text
    /\ hist.n_edits < MaxEdits
    /\ in_text' = q
    /\ LET t == TelescopeQuery(search_queries, asyncq, q)
       IN /\ search_queries' = t.queries
          /\ asyncq' = t.queue
    /\ hist' = [Quiet(hist) EXCEPT !.n_edits = @ + 1, !.last_requested = q]
    /\ UNCHANGED <<panel, out_buffer, out_regions, out_current, inflight, now,
                   views, active_view, input_focused, current_selection,
                   regions_to_add, init_views_scroll, init_active_view,
                   skip_telescope_reset, parse, count>>

\* TelescopeQueryCommand._run up to os.popen(cmd): the async thread pops the
\* stored query; no query: return; an empty one: telescope_set_result with
\* no line; any other: the command line is built and the process started.
QueryRunStart ==
    \E k \in 1..Len(asyncq) :
       /\ Runnable(k)
       /\ asyncq[k].fn = "query_run"
       /\ LET search_query == search_queries[ViewKey]
              ticket == hist.ticket + 1
          IN /\ search_queries' = [search_queries EXCEPT ![ViewKey] = NoQuery]
             /\ IF search_query = NoQuery
                THEN /\ asyncq' = Remove(asyncq, k)
                     /\ hist' = Quiet(hist)
                     /\ UNCHANGED <<inflight, out_buffer>>
                ELSE IF NoSearchFor(search_query)
                THEN /\ out_buffer' = ParseResult(<< >>, FALSE).buffer
                     /\ asyncq' = SetTimeoutAsync(Remove(asyncq, k), "set_result_run", 0,
                                      Results(ticket,
                                              ParseResult(<< >>, FALSE).search_results))
                     /\ hist' = [Quiet(hist) EXCEPT !.ticket = ticket,
                                                    !.last_processed = search_query]
                     /\ UNCHANGED inflight
                ELSE /\ asyncq' = Remove(asyncq, k)
                     /\ inflight' = [active |-> TRUE, query |-> search_query,
                                     only_files |-> OnlyFiles(search_query),
                                     ticket |-> ticket]
                     /\ hist' = [Quiet(hist) EXCEPT !.ticket = ticket,
                                                    !.last_processed = search_query,
                                                    !.last_search = search_query,
                                                    !.last_start = now,
                                                    !.live = @ + 1]
                     /\ UNCHANGED out_buffer
       /\ UNCHANGED <<panel, in_text, out_regions, out_current, now, views,
                      active_view, input_focused, current_selection,
                      regions_to_add, init_views_scroll, init_active_view,
                      skip_telescope_reset, parse, count>>

\* The rest of _run: readlines() returns what the tool printed, and
\* telescope_set_result runs on it (TelescopeSetResultCommand.run): the
\* panel text is rebuilt and, unless the parse raised, _run is scheduled.
QueryRunFinish ==
    /\ inflight.active
    /\ \E result \in ToolOutputs(inflight.only_files) :
          LET st == ParseResult(result, inflight.only_files)
          IN /\ out_buffer' = st.buffer
             /\ asyncq' = IF st.raised THEN asyncq
                          ELSE SetTimeoutAsync(asyncq, "set_result_run", 0,
                                   Results(inflight.ticket, st.search_results))
    /\ inflight' = NoProcess
    /\ hist' = [Quiet(hist) EXCEPT !.live = @ - 1]
    /\ UNCHANGED <<panel, in_text, out_regions, out_current, search_queries, now,
                   views, active_view, input_focused, current_selection,
                   regions_to_add, init_views_scroll, init_active_view,
                   skip_telescope_reset, parse, count>>

\* TelescopeSetResultCommand._run(search_results)
SetResultRun ==
    \E k \in 1..Len(asyncq) :
       /\ Runnable(k)
       /\ asyncq[k].fn = "set_result_run"
       /\ asyncq' = Remove(asyncq, k)
       /\ SetWindow(NextResult(Window, init_views_scroll, panel, 0,
                               asyncq[k].results, 0))
       /\ hist' = [Quiet(hist) EXCEPT !.applied = asyncq[k].results,
                                      !.nav_expected = 0,
                                      !.fresh = TRUE,
                                      !.nav_only = TRUE,
                                      !.shown = ShownBy(0, asyncq[k].results, 0)]
       /\ UNCHANGED <<panel, in_text, out_buffer, search_queries, inflight, now,
                      init_views_scroll, init_active_view, skip_telescope_reset, parse, count>>

\* Time passes.
Tick ==
    /\ now + TickStep <= MaxTime
    /\ now' = now + TickStep
    /\ hist' = Quiet(hist)
    /\ UNCHANGED <<panel, in_text, out_buffer, out_regions, out_current,
                   search_queries, asyncq, inflight, views, active_view,
                   input_focused, current_selection, regions_to_add,
                   init_views_scroll, init_active_view, skip_telescope_reset, parse, count>>

\* ------------------------------------------------------------------------
\* TelescopeCommand, the navigation commands and the event listener
\* ------------------------------------------------------------------------

\* The text of the last selection of the view the command runs on.
InitialTexts == {EmptyQuery, QueryAb}

\* TelescopeCommand.run: the globals are saved, the io panel is created
\* (the views of an existing panel are kept) and shown.  A one-line
\* selection goes to the input view (on_modified queries it) and is queried
\* once more; with no text the input view is cleared, which is a
\* modification when it held text.
TelescopeCommand_run(text) ==
    /\ panel # "shown"
    /\ LET calls == IF text # EmptyQuery THEN <<text, text>>
                    ELSE IF in_text # EmptyQuery THEN <<EmptyQuery>>
                    ELSE << >>
           t1 == IF Len(calls) >= 1
                 THEN TelescopeQuery(search_queries, asyncq, calls[1])
                 ELSE [queries |-> search_queries, queue |-> asyncq]
           t2 == IF Len(calls) >= 2
                 THEN TelescopeQuery(t1.queries, t1.queue, calls[2])
                 ELSE t1
       IN /\ hist.n_edits + Len(calls) <= MaxEdits
          /\ search_queries' = t2.queries
          /\ asyncq' = t2.queue
          /\ hist' = [Quiet(hist) EXCEPT
                        !.n_edits = @ + Len(calls),
                        !.last_requested = IF calls = << >> THEN @ ELSE calls[1],
                        !.fresh = FALSE,
                        !.nav_only = FALSE]
    /\ init_views_scroll' =
          [present |-> TRUE,
           pos |-> [f \in Files |-> IF views[f].state # "closed"
                                    THEN views[f].viewport ELSE -1]]
    /\ init_active_view' = [present |-> TRUE, view |-> active_view]
    /\ in_text' = text
    /\ panel' = "shown"
    /\ input_focused' = TRUE
    /\ UNCHANGED <<out_buffer, out_regions, out_current, inflight, now, views,
                   active_view, current_selection, regions_to_add,
                   skip_telescope_reset, parse, count>>

\* IoPanelEventListener.on_window_command(window, "hide_panel", args): the
\* window state and the globals it leaves.
OnHidePanel(w, skip, scroll, active, io_panel) ==
    IF skip
    THEN [w |-> w, skip |-> FALSE, scroll |-> scroll, active |-> active]
    ELSE IF io_panel = "shown"
    THEN [w |-> ResetInitialState(w, scroll, active, TRUE), skip |-> FALSE,
          scroll |-> EmptyScroll, active |-> NoActive]
    ELSE [w |-> w, skip |-> skip, scroll |-> scroll, active |-> active]

\* The user dismisses the panel: the hide_panel window command.
HidePanel ==
    /\ panel = "shown"
    /\ LET r == OnHidePanel(Window, skip_telescope_reset, init_views_scroll,
                            init_active_view, panel)
       IN /\ SetWindow([r.w EXCEPT !.input_focused = FALSE])
          /\ skip_telescope_reset' = r.skip
          /\ init_views_scroll' = r.scroll
          /\ init_active_view' = r.active
    /\ panel' = "hidden"
    /\ hist' = [Quiet(hist) EXCEPT !.fresh = FALSE, !.nav_only = FALSE]
    /\ UNCHANGED <<in_text, out_buffer, search_queries, asyncq, inflight, now,
                   parse, count>>

\* TelescopeCommand.on_enter(value): Enter in the input view.
OnEnter ==
    /\ panel = "shown"
    /\ LET vv == current_selection
           popped == [Window EXCEPT !.current_selection = NoSelection]
           jumped == LET w1 == ResetInitialState(popped, init_views_scroll,
                                                 init_active_view, FALSE)
                     IN IF w1.views[vv.view].state = "closed" THEN w1
                        ELSE [w1 EXCEPT !.active_view = vv.view,
                                        !.views[vv.view].sel = vv.region]
           r == IF vv.kind # "sel"
                THEN OnHidePanel(popped, skip_telescope_reset, init_views_scroll,
                                 init_active_view, panel)
                ELSE OnHidePanel(jumped, TRUE, EmptyScroll, NoActive, panel)
       IN /\ SetWindow([r.w EXCEPT !.input_focused = FALSE])
          /\ skip_telescope_reset' = r.skip
          /\ init_views_scroll' = r.scroll
          /\ init_active_view' = r.active
    /\ panel' = "hidden"
    /\ hist' = [Quiet(hist) EXCEPT !.fresh = FALSE, !.nav_only = FALSE]
    /\ UNCHANGED <<in_text, out_buffer, search_queries, asyncq, inflight, now,
                   parse, count>>

\* TelescopeFindNextCommand.run (direction 1) and TelescopeFindPrevCommand.run
\* (direction -1).  Reading current_selection[window] raises KeyError when
\* the window is no key, and unpacking None raises TypeError.
FindCommand(direction) ==
    IF panel = "none"
    THEN /\ hist' = Quiet(hist)
         /\ UNCHANGED <<views, active_view, input_focused, current_selection,
                        regions_to_add, out_regions, out_current>>
    ELSE IF current_selection.kind # "sel"
    THEN /\ hist' = [hist EXCEPT !.nav_error =
                        IF current_selection.kind = "absent" THEN "KeyError"
                        ELSE "TypeError"]
         /\ UNCHANGED <<views, active_view, input_focused, current_selection,
                        regions_to_add, out_regions, out_current>>
    ELSE /\ SetWindow(NextResult(Window, init_views_scroll, panel, direction,
                                 current_selection.results, current_selection.index))
         /\ hist' = [Quiet(hist) EXCEPT
                        !.nav_expected =
                            IF Len(hist.applied.items) = 0 THEN 0
                            ELSE (@ + direction) % Len(hist.applied.items),
                        !.fresh = FALSE,
                        !.shown = ShownBy(direction, current_selection.results,
                                          current_selection.index)]

TelescopeFindNext ==
    /\ FindCommand(1)
    /\ UNCHANGED <<panel, in_text, out_buffer, search_queries, asyncq, inflight, now,
                   init_views_scroll, init_active_view, skip_telescope_reset, parse, count>>

TelescopeFindPrev ==
    /\ FindCommand(-1)
    /\ UNCHANGED <<panel, in_text, out_buffer, search_queries, asyncq, inflight, now,
                   init_views_scroll, init_active_view, skip_telescope_reset, parse, count>>

\* A view finishes loading: IoPanelEventListener.on_load(view).
OnLoad(view) ==
    /\ views[view].state = "loading"
    /\ LET w1 == [Window EXCEPT !.views[view].state = "loaded"]
           w2 == IF regions_to_add.kind = "set" /\ regions_to_add.view = view
                 THEN [SetFileViewRegions(w1, regions_to_add.view,
                                          regions_to_add.results,
                                          regions_to_add.index, panel)
                         EXCEPT !.regions_to_add = NoDeferral]
                 ELSE w1
       IN SetWindow(w2)
    /\ hist' = Quiet(hist)
    /\ UNCHANGED <<panel, in_text, out_buffer, search_queries, asyncq, inflight, now,
                   init_views_scroll, init_active_view, skip_telescope_reset, parse, count>>

\* ------------------------------------------------------------------------
\* The specifications
\* ------------------------------------------------------------------------
Next ==
    \/ \E text \in InitialTexts : TelescopeCommand_run(text)
    \/ \E q \in Queries : Edit(q)
    \/ QueryRunStart
    \/ QueryRunFinish
    \/ SetResultRun
    \/ HidePanel
    \/ OnEnter
    \/ TelescopeFindNext
    \/ TelescopeFindPrev
    \/ \E f \in Files : OnLoad(f)

Spec == Init /\ [][Next]_vars

\* The debouncer alone, with the clock: the search UI is opened, the user
\* edits the query, time passes, and the async thread runs its callbacks.
\* Sublime runs every callback given to set_timeout_async once it is due,
\* the external process ends (`timeout 1s`), and time goes on.
NextDebounce ==
    \/ \E text \in InitialTexts : TelescopeCommand_run(text)
    \/ \E q \in Queries : Edit(q)
    \/ QueryRunStart
    \/ QueryRunFinish
    \/ SetResultRun
    \/ \E f \in Files : OnLoad(f)
    \/ Tick

SpecDebounce ==
    /\ Init
    /\ [][NextDebounce]_vars
    /\ WF_vars(QueryRunStart)
    /\ WF_vars(QueryRunFinish)
    /\ WF_vars(SetResultRun)
    /\ WF_vars(Tick)

\* ------------------------------------------------------------------------
\* TelescopeSetResultCommand.run alone, one loop iteration a step, on every
\* list of at most MaxLines lines, in both modes.  In the mode of structured
\* records the list may come after records of another type (the "end" of a
\* file, "context"), as many as bring the flush of iteration FLUSH_PERIOD
\* onto each of its lines; the run is followed from the end of these on:
\* parse.first counts them, parse.result holds the lines after them.
\* ------------------------------------------------------------------------
MaxLines == 3

\* A matched line longer than the part of it the panel shows, with a match
\* beyond that part.
LongLine ==
    MatchLine(PathA, 3, [k \in 1..CONTENT_LIMIT + 8 |-> "x"],
              <<Sub(CONTENT_LIMIT + 6, CONTENT_LIMIT + 7)>>)

Pads == {0, FLUSH_PERIOD - 2, FLUSH_PERIOD - 1, FLUSH_PERIOD}

\* The locals after n <= FLUSH_PERIOD leading records of another type:
\* iteration 0 flushes, the iterations 1 .. n - 1 change nothing.
AfterPad(n) == IF n = 0 THEN ParseStart ELSE ParseLine(ParseStart, 0, OtherLine, FALSE)

LineChoices ==
    {BlankLine, OtherLine, BeginLine(PathA),
     TextLine(<<"{">>), TextLine(<<"a", "\n">>),
     MatchLine(PathA, 1, <<"x", "\n">>, <<Sub(0, 1)>>),
     MatchLine(PathA, 12, <<" ", " ", "x", "y", "\n">>, <<Sub(2, 3), Sub(3, 4)>>),
     BytesLine(PathA, 2, <<Sub(0, 1)>>), LongLine}

ParseInputs == UNION {[1..n -> LineChoices] : n \in 0..MaxLines}

InitParse ==
    /\ InitEvents
    /\ active_view = NoView
    /\ count = CountIdle
    /\ \E lines \in ParseInputs, only_files \in BOOLEAN, pad \in Pads :
          /\ only_files => pad = 0
          /\ parse = [ParseIdle EXCEPT
                        !.result = lines,
                        !.only_files = only_files,
                        !.first = pad,
                        !.i = pad,
                        !.st = AfterPad(pad),
                        !.status = "loop"]

\* One iteration of the loop of run().
ParseStep ==
    /\ parse.status = "loop"
    /\ parse.i - parse.first < Len(parse.result)
    /\ LET st == ParseLine(parse.st, parse.i,
                           parse.result[parse.i - parse.first + 1],
                           parse.only_files)
       IN parse' = [parse EXCEPT !.st = st, !.i = @ + 1,
                                 !.status = IF st.raised THEN "raised" ELSE @]
    /\ UNCHANGED <<evars, count>>

\* After the loop: the pending text is inserted and _run is scheduled with
\* the list built.
ParseFinish ==
    /\ parse.status = "loop"
    /\ parse.i - parse.first = Len(parse.result)
    /\ parse' = [parse EXCEPT !.st = ParseEnd(parse.st), !.status = "done",
                              !.scheduled = parse.st.search_results]
    /\ UNCHANGED <<evars, count>>

NextParse == ParseStep \/ ParseFinish

SpecParse == InitParse /\ [][NextParse]_vars

\* ------------------------------------------------------------------------
\* The size of the result list: the lines that reach readlines() through
\* the command line _run builds, and the results run() makes of each.
\* ------------------------------------------------------------------------

\* telescope.py:161, `| head -n200`
HEAD_LINES == 200

\* The submatches a match record carries, at most.
MaxSubmatches == 2

\* The lines the tool prints where nothing cuts its output, at most.
MaxToolLines == 201

Platforms == {"linux", "darwin", "win32"}

\* `if "linux" in platform or "darwin" in platform`: the command is piped
\* through head.
HasHead(platform) == platform \in {"linux", "darwin"}

InitCount ==
    /\ InitEvents
    /\ active_view = NoView
    /\ parse = ParseIdle
    /\ \E platform \in Platforms : count = [CountIdle EXCEPT !.platform = platform]

\* One more line of the tool reaches the loop of run(): a match record adds
\* one SearchResult per submatch, a path of the files-only mode adds one,
\* any other line none.
ToolLine(k) ==
    /\ count.lines < MaxToolLines
    /\ HasHead(count.platform) => count.lines < HEAD_LINES
    /\ count' = [count EXCEPT !.lines = @ + 1, !.results = @ + k]
    /\ UNCHANGED <<evars, parse>>

NextCount == \E k \in 0..MaxSubmatches : ToolLine(k)

SpecCount == InitCount /\ [][NextCount]_vars

\* ------------------------------------------------------------------------
\* TelescopeQueryCommand._run on every query of at most MaxTerms terms: the
\* search UI was opened on a window without files and the query typed.
\* ------------------------------------------------------------------------
MaxTerms == 2

\* The terms of search_query.split(" "): empty (two spaces in a row), a
\* literal, an including and an excluding glob, the home directory.
TermChoices == {<< >>, <<"a", "b">>, <<"*", ".", "p">>, <<"-", "*", ".", "p">>, <<"~">>}

QueryInputs == UNION {[1..n -> TermChoices] : n \in 1..MaxTerms} \ {EmptyQuery}

InitMode ==
    /\ \E q \in QueryInputs :
          /\ in_text = q
          /\ search_queries = [k \in {ViewKey, WindowKey} |->
                                  IF k = ViewKey THEN q ELSE NoQuery]
          /\ hist = [NoHistory EXCEPT !.n_edits = 1, !.last_requested = q]
    /\ panel = "shown"
    /\ out_buffer = << >>
    /\ out_regions = << >>
    /\ out_current = << >>
    /\ asyncq = <<Callback("query_run", 0, NoResults)>>
    /\ inflight = NoProcess
    /\ now = 0
    /\ views = [f \in Files |-> ClosedView]
    /\ active_view = NoView
    /\ input_focused = TRUE
    /\ current_selection = NoSelection
    /\ regions_to_add = NoDeferral
    /\ init_views_scroll = EmptyScroll
    /\ init_active_view = [present |-> TRUE, view |-> NoView]
    /\ skip_telescope_reset = FALSE
    /\ parse = ParseIdle
    /\ count = CountIdle

NextMode ==
    \/ QueryRunStart
    \/ QueryRunFinish
    \/ SetResultRun
    \/ \E f \in Files : OnLoad(f)

SpecMode == InitMode /\ [][NextMode]_vars

(***************************************************************************)
(* Part 4.  The properties.                                                *)
(***************************************************************************)

\* A step starts an external search process.
Launches == ~inflight.active /\ inflight'.active

\* C1: once the results of a newer search have been applied, no step makes
\* current_selection hold the result list of an older search again.
C1_NewestResultsStay ==
    [][(/\ current_selection'.kind = "sel"
        /\ current_selection'.results.ticket < hist'.applied.ticket)
       => (/\ current_selection.kind = "sel"
           /\ current_selection.results.ticket = current_selection'.results.ticket)]_vars

\* No call of TelescopeQueryCommand._run is pending or under way.
Quiescent ==
    /\ ~inflight.active
    /\ \A k \in 1..Len(asyncq) : asyncq[k].fn # "query_run"

\* C2, as claimed: when the edits are over and the callbacks have run, the
\* last external search that ran used the text of the last edit and no
\* query is pending.
C2_LastSearchIsLastEdit ==
    (Quiescent /\ hist.n_edits > 0 /\ hist.last_search # NoQuery)
    => /\ hist.last_search = hist.last_requested
       /\ search_queries[ViewKey] = NoQuery

\* C2, amended: the callbacks all run in the end, and then no query is
\* pending and the last query _run took is the text of the last edit; it was
\* searched for unless it is empty.
C2_Convergence ==
    /\ []((Quiescent /\ hist.n_edits > 0)
          => /\ search_queries[ViewKey] = NoQuery
             /\ hist.last_processed = hist.last_requested
             /\ hist.last_requested # EmptyQuery
                => hist.last_search = hist.last_requested)
    /\ <>[]Quiescent

\* Two edits were coalesced into one search, of the text of the second.
C2_Witness ==
    /\ Quiescent
    /\ hist.n_edits >= 2
    /\ hist.ticket = 1
    /\ hist.last_requested = QueryGlob
    /\ hist.last_search = QueryGlob

\* A step in which _run takes a stored query.
Pops == hist'.ticket = hist.ticket + 1

\* The last callback scheduled hands the empty list to
\* TelescopeSetResultCommand._run.
EmptyResultScheduled(queue) ==
    /\ queue # << >>
    /\ queue[Len(queue)].fn = "set_result_run"
    /\ queue[Len(queue)].results.items = << >>

C3_SpacingFloor ==
    [][(Launches /\ hist.last_start # -1 /\ now < MaxTime)
       => now - hist.last_start >= MIN_UPDATE_PERIOD]_vars

\* C5: while the panel is dismissed no external search starts and no file
\* view is opened, a query edit pending at the dismissal being cleared.
C5_DismissalCancels ==
    [][panel = "hidden"
       => /\ ~Launches
          /\ \A f \in Files :
                views[f].state = "closed" => views'[f].state = "closed"]_vars

\* C6: after next and prev commands on the applied result list, once no
\* view is loading the highlighted index is (0 + number of next - number of
\* prev) mod n, in current_selection and in the output panel's current mark.
C6_NavigationGroupAction ==
    (/\ hist.nav_only
     /\ current_selection.kind = "sel"
     /\ current_selection.results = hist.applied
     /\ \A f \in Files : views[f].state # "loading")
    => /\ current_selection.index = hist.nav_expected
       /\ out_current = <<hist.applied.items[hist.nav_expected + 1].region_io>>

\* C7: TelescopeFindNext and TelescopeFindPrev never raise.
C7_NavigationNeverThrows == hist.nav_error = "none"

\* C10: after a search is applied and before any further user command, an
\* empty list leaves no selected result, and a non-empty one, once the view
\* of its first result is loaded, is the session's list with index 0, result
\* 0 marked current in the panel and the preview at result 0.
C10_AutoSelectFirst ==
    hist.fresh =>
       IF hist.applied.items = << >>
       THEN current_selection.kind # "sel"
       ELSE LET first == hist.applied.items[1]
            IN views[first.path].state = "loaded"
               => /\ current_selection =
                        Selection(0, ResultRegion(first), first.path, hist.applied)
                  /\ out_current = <<first.region_io>>
                  /\ views[first.path].deco = ResultRegion(first)
                  /\ views[first.path].viewport = first.line_number

\* The lines of a tool output that are blank or well-formed records.
WellFormedOnly(result) ==
    SelectSeq(result, LAMBDA line : IsBlank(RawText(line)) \/ WellFormed(line))

\* The path, line number and match span of each result of a list.
Spans(results) ==
    [k \in 1..Len(results) |->
        <<results[k].path, results[k].line_number, results[k].line_position>>]

\* C8: a run on structured records ends by scheduling the results of every
\* well-formed match record, whatever lines of the output are malformed.
C8_ParseRecovery ==
    (parse.status \in {"done", "raised"} /\ ~parse.only_files)
    => /\ parse.status = "done"
       /\ Spans(parse.scheduled) =
             Spans(ParseResult(WellFormedOnly(parse.result), FALSE).search_results)

\* C9: a result list holds at most 200 SearchResult records.
C9_BoundedResultSet == count.results <= HEAD_LINES

\* C11: a result highlighted while its view is loading is remembered as
\* (view, results, index); when on_load of that view fires with the panel
\* open and the deferral still in place, the region of that result decorates
\* the view, the highlight becomes the current selection, and the deferral
\* is removed.
C11_DeferredPreview ==
    /\ [](hist.shown.kind = "set"
          => LET r == hist.shown.results.items[hist.shown.index + 1]
             IN views[r.path].state = "loading"
                => regions_to_add = Deferral(r.path, hist.shown.results,
                                             hist.shown.index))
    /\ [][\A f \in Files :
             (/\ views[f].state = "loading"
              /\ views'[f].state = "loaded"
              /\ regions_to_add.kind = "set"
              /\ regions_to_add.view = f
              /\ panel = "shown")
             => LET r == regions_to_add.results.items[regions_to_add.index + 1]
                IN /\ views'[f].deco = ResultRegion(r)
                   /\ current_selection' =
                         Selection(regions_to_add.index, ResultRegion(r), f,
                                   regions_to_add.results)
                   /\ regions_to_add' = NoDeferral]_vars

\* The view of file a was loading when a result in it was highlighted,
\* and on_load has applied the deferred highlight.
C11_Witness ==
    /\ panel = "shown"
    /\ current_selection.kind = "sel"
    /\ current_selection.view = PathA
    /\ views[PathA].state = "loaded"
    /\ views[PathA].deco = current_selection.region
    /\ regions_to_add = NoDeferral
    /\ hist.shown = Shown(current_selection.results, current_selection.index)

\* The query holds a glob token.
HasGlob(q) == \E k \in 1..Len(q) : IsGlobTerm(q[k])

\* C12: _run enters the files-only mode exactly for the queries whose
\* literal search text is empty and that hold a glob token, and every
\* result of a search in that mode has line number 0 and match span (0, 0).
C12_FilesOnlyMode ==
    [][/\ Launches
          => (inflight'.only_files
                <=> (SearchTerms(inflight'.query) = << >> /\ HasGlob(inflight'.query)))
       /\ (inflight.active /\ inflight.only_files /\ ~inflight'.active)
          => LET items == asyncq'[Len(asyncq')].results.items
             IN \A k \in 1..Len(items) :
                   items[k].line_number = 0 /\ items[k].line_position = <<0, 0>>]_vars

\* The path, line number and span of every submatch of a record.
LineSpans(line) ==
    IF line.kind # "match" THEN << >>
    ELSE [k \in 1..Len(line.submatches) |->
            <<line.path, line.line_number,
              <<line.submatches[k].start, line.submatches[k].end>>>>]

RECURSIVE RecordSpans(_)
\* Those of every record of a tool output, in its order.
RecordSpans(result) ==
    IF result = << >> THEN << >>
    ELSE LineSpans(Head(result)) \o RecordSpans(Tail(result))

\* C13: a run on structured records makes one SearchResult of every
\* submatch of every match record, in order, with the record's path and
\* line number and the submatch's span; each display span is non-negative
\* and starts after that of the previous result of the same file.
C13_StructuredRecords ==
    (parse.status = "done" /\ ~parse.only_files)
    => /\ Spans(parse.scheduled) = RecordSpans(parse.result)
       /\ \A k \in 1..Len(parse.scheduled) :
             /\ parse.scheduled[k].region_io[1] >= 0
             /\ (k > 1 /\ parse.scheduled[k - 1].path = parse.scheduled[k].path)
                => /\ parse.scheduled[k].region_io[1] > parse.scheduled[k - 1].region_io[1]
                   /\ parse.scheduled[k].region_io[2] > parse.scheduled[k - 1].region_io[2]

\* C14: whenever current_selection[window] holds a tuple (index, region,
\* view, results), results is not empty, index is one of its indices, and
\* view is the view opened for the path of results[index].
C14_HighlightedIndex ==
    current_selection.kind = "sel"
    => /\ Len(current_selection.results.items) > 0
       /\ current_selection.index \in 0..(Len(current_selection.results.items) - 1)
       /\ current_selection.view =
             current_selection.results.items[current_selection.index + 1].path

\* The last of three results is highlighted, reached by the previous-result
\* command from the first.
C14_Witness ==
    /\ current_selection.kind = "sel"
    /\ Len(current_selection.results.items) = 3
    /\ current_selection.index = 2
    /\ hist.nav_expected = 2
    /\ views[current_selection.view].deco = current_selection.region

\* C15: at most one external search process is live at a time, the result
\* lists are applied to the panel in the order in which their searches
\* started, and a query edit leaves a running search alone.
C15_NoOverlappingSearches ==
    /\ [](hist.live <= 1)
    /\ [][/\ hist'.applied.ticket >= hist.applied.ticket
          /\ (inflight.active /\ hist'.n_edits > hist.n_edits)
             => inflight' = inflight]_vars

\* The query was edited while the search of the first query runs; the
\* edit waits in search_queries.
C15_Witness ==
    /\ inflight.active
    /\ inflight.ticket = 1
    /\ hist.live = 1
    /\ hist.n_edits = 2
    /\ search_queries[ViewKey] # NoQuery
    /\ search_queries[ViewKey] # inflight.query

\* A step in which the panel is hidden and _reset_initial_state(window)
\* runs with close=True: the hide_panel command, and Enter with no
\* selection.
Cancels ==
    /\ panel = "shown"
    /\ panel' = "hidden"
    /\ ~skip_telescope_reset
    /\ current_selection.kind = "sel" => current_selection'.kind = "sel"

\* C16: when the cancel handler completes, the view that was active when the
\* search UI was opened has the focus, every view that existed then is open
\* at the viewport position it had, every semi-transient view that did not
\* exist then is closed, and no view carries the result decoration.
C16_CancelRestores ==
    [][Cancels
       => /\ init_active_view.view # NoView
             => (active_view' = init_active_view.view /\ ~input_focused')
          /\ \A f \in Files :
                /\ init_views_scroll.pos[f] # -1
                   => /\ views'[f].state # "closed"
                      /\ views'[f].viewport = init_views_scroll.pos[f]
                /\ (init_views_scroll.pos[f] = -1 /\ views[f].semi)
                   => views'[f].state = "closed"
                /\ views'[f].deco = NoRegion]_vars

\* The submatch lies in the part of its line the panel shows: at or after
\* the first character that is not white space, and within CONTENT_LIMIT
\* characters from there.
Displayed(line, m) ==
    LET to_trim == ToTrim(ReplaceNewline(line.text))
    IN /\ m.start >= to_trim
       /\ m.start <= m.end
       /\ m.end - to_trim <= CONTENT_LIMIT

\* C17: after a run on structured records, for every submatch in the
\* displayed part of its line, the text of the output panel at the
\* region_io of its SearchResult is the text of the line at the match span,
\* wherever the flush of the pending text fell.
C17_DisplaySpanAlignment ==
    (parse.status = "done" /\ ~parse.only_files)
    => \A l \in 1..Len(parse.result) :
          \A j \in 1..Len(parse.result[l].submatches) :
             LET line == parse.result[l]
                 m == line.submatches[j]
                 k == Len(RecordSpans(SubSeq(parse.result, 1, l - 1))) + j
                 r == parse.scheduled[k]
             IN (line.kind = "match" /\ Displayed(line, m))
                => /\ r.region_io[2] <= Len(parse.st.buffer)
                   /\ SubSeq(parse.st.buffer, r.region_io[1] + 1, r.region_io[2])
                         = SubSeq(line.text, m.start + 1, m.end)

\* Three match records, the second at the iteration that flushes: text was
\* inserted by the flush and after the loop, and the last result, of a
\* submatch in the displayed part, lies in the text inserted last.
C17_Witness ==
    /\ parse.status = "done"
    /\ ~parse.only_files
    /\ parse.first = FLUSH_PERIOD - 1
    /\ Len(parse.result) = 3
    /\ \A l \in 1..3 : parse.result[l].kind = "match"
    /\ parse.st.ii_view > 0
    /\ Len(parse.st.buffer) > parse.st.ii_view
    /\ Displayed(parse.result[3], parse.result[3].submatches[1])
    /\ parse.scheduled[Len(parse.scheduled)].region_io[1] >= parse.st.ii_view

\* C18: Enter, with a result marked current in the output panel, gives the
\* focus to the view of that result and selects its match span there, also
\* while that view is loading.
C18_ConfirmJumpsToHighlighted ==
    [][(OnEnter /\ hist.shown.kind = "set")
       => LET r == hist.shown.results.items[hist.shown.index + 1]
          IN /\ active_view' = r.path
             /\ ~input_focused'
             /\ views'[r.path].state # "closed"
             /\ views'[r.path].sel = ResultRegion(r)]_vars

\* The views that carry the "telescope-result-view" decoration.
Decorated == {f \in Files : views[f].state # "closed" /\ views[f].deco # NoRegion}

\* C19: at most one view carries the result decoration, and the one that
\* does is the view of current_selection[window], decorated at its region.
C19_SinglePreviewHighlight ==
    /\ Cardinality(Decorated) <= 1
    /\ \A f \in Decorated :
          /\ current_selection.kind = "sel"
          /\ current_selection.view = f
          /\ current_selection.region = views[f].deco

=============================================================================
